---- MODULE Spec2Model ----
(***************************************************************************)
(* Model of interactive_report.py: the percentile split of the loaded      *)
(* frame and the per-group analysis done by analyze_split, as it is run    *)
(* by the update_analysis callback.                                        *)
(*                                                                         *)
(* Numbers.  A cell of the frame is NaN (a missing value) or Val(v) for an *)
(* integer v.  A computed metric is NaN, an exact rational Num(n, d), the  *)
(* square root Sqrt(q) of an exact rational, or Defined (a finite value    *)
(* whose magnitude is not modelled: kurtosis and skewness).                *)
(***************************************************************************)
EXTENDS Integers, Sequences, FiniteSets, TLC

\* ---------------------------------------------------------------- bounds
MaxRows == 3          \* rows of the frames of Spec
MaxStatRows == 4      \* rows of the frames of SpecStats
MaxLargeRows == 50    \* rows of the frames of SpecLarge

\* the callbacks that may overlap
Requests == {"r1", "r2"}

\* slider values (and values outside the slider's range) a request may carry
SmallPercentiles == {0 - 10, 0, 50, 100, 150}
StatPercentiles == {0, 50, 100}
LargePercentiles == {0, 57, 58, 100}

\* ---------------------------------------------------------------- values
NaN == [nan |-> TRUE]
Val(v) == [nan |-> FALSE, v |-> v]
Num(n, d) == [nan |-> FALSE, num |-> n, den |-> d]
Sqrt(q) == [nan |-> FALSE, sqrt_of |-> q]
Defined == [nan |-> FALSE, finite |-> TRUE]

RatEq(a, b) == a.num * b.den = b.num * a.den
RatLT(a, b) == a.num * b.den < b.num * a.den

RECURSIVE SeqSum(_)
SeqSum(s) == IF s = <<>> THEN 0 ELSE Head(s) + SeqSum(Tail(s))

Range(s) == {s[i] : i \in DOMAIN s}

\* ------------------------------------------------------------ the frame
\* the frames with n rows whose cells are drawn from G, H19 and H21; idx is
\* the row's index label (its position in all.csv)
Frames(n, G, H19, H21) ==
    {[i \in 1..n |-> [idx |-> i, GDP_2021 |-> f[i][1],
                      HE_2019 |-> f[i][2], HE_2021 |-> f[i][3]]] :
        f \in [1..n -> G \X H19 \X H21]}

\* ----------------------------------------------------------- sort_values
\* the rows that may come next in an argsort of d after the rows of s: a
\* row whose key is the greatest left; once only NaN keys are left, the
\* first of them (NaN keys go last, in their original order)
NextRows(d, s) ==
    LET rest == (1..Len(d)) \ Range(s)
        keyed == {j \in rest : ~d[j].GDP_2021.nan}
    IN  IF keyed # {}
        THEN {j \in keyed : \A i \in keyed : d[j].GDP_2021.v >= d[i].GDP_2021.v}
        ELSE {j \in rest : \A i \in rest : j <= i}

RECURSIVE ArgsortUpTo(_, _)
ArgsortUpTo(d, k) ==
    IF k = 0 THEN {<<>>}
    ELSE UNION {{Append(s, j) : j \in NextRows(d, s)} :
                    s \in ArgsortUpTo(d, k - 1)}

\* sort_values(by='2021_GDP', ascending=False) with the default
\* kind='quicksort', which is not a stable sort: every descending order of
\* the keys is an outcome, whatever the order of tied rows
ArgsortOutcomes(d) == ArgsortUpTo(d, Len(d))

\* line 23: a new frame (sort_values is not in place), rows taken by ix
SortValues(d, ix) == [k \in 1..Len(d) |-> d[ix[k]]]

\* ------------------------------------------------- the cutoff (lines 26-29)
Max(a, b) == IF a >= b THEN a ELSE b
Min(a, b) == IF a <= b THEN a ELSE b

RECURSIVE FloorLog2(_)
FloorLog2(k) == IF k < 2 THEN 0 ELSE 1 + FloorLog2(k \div 2)

RECURSIVE Pow2(_)
Pow2(e) == IF e = 0 THEN 1 ELSE 2 * Pow2(e - 1)

RECURSIVE Pow2Mod100(_)
Pow2Mod100(e) == IF e = 0 THEN 1 ELSE (2 * Pow2Mod100(e - 1)) % 100

\* the binary exponent E of p / 100 for p >= 1: 2^E <= p / 100 < 2^(E + 1)
BinExp(p) ==
    IF p >= 100 THEN FloorLog2(p \div 100)
    ELSE 0 - (CHOOSE t \in 1..7 : 100 <= p * Pow2(t) /\ p * Pow2(t) < 200)

\* int(n * (p / 100)) in IEEE-754 binary64 for n >= 0 and p >= 0, both below
\* 2^20.  q = p / 100 is the double nearest to p / 100: its 53-bit mantissa
\* is p * 2^e / 100 rounded, e = 52 - BinExp(p), so q is below p / 100 by
\* r0 / (100 * 2^e) when r0 = (p * 2^e) % 100 is under 50 and above it (or
\* exact) otherwise.  n * q is then rounded to the nearest double and int()
\* truncates.  When n * p is not a multiple of 100 the product is at least
\* 1/100 away from every integer, far more than both roundings, and the
\* result is n * p \div 100.  When n * p = 100 * k the result is k unless q
\* was rounded down and the product rounds to a double below k, which
\* happens when its distance to k, n * r0 / (100 * 2^e), exceeds half of
\* the gap between k and the double before it (2^(F - 52) for
\* F = FloorLog2(k), half of that when k is a power of two).
TruncProductNonNeg(n, p) ==
    LET k == (n * p) \div 100
        s == (n * p) % 100
        E == BinExp(p)
        r0 == (p * Pow2Mod100(52 - E)) % 100
        F == FloorLog2(k)
        w == IF Pow2(F) = k THEN 4 ELSE 2
    IN  IF s # 0 \/ k = 0 THEN k
        ELSE IF r0 = 0 \/ r0 >= 50 THEN k
        ELSE IF w * n * r0 > 100 * Pow2(F - E) THEN k - 1
        ELSE k

\* the product taken with the share of the lower group, 100 - p
TruncProductComplement(n, p) ==
    IF 100 - p >= 0 THEN TruncProductNonNeg(n, 100 - p)
    ELSE 0 - TruncProductNonNeg(n, p - 100)

\* line 26: int(len(data_sorted) * (percentile_threshold / 100)); a negative
\* percentile gives the mirrored double and int() truncates toward zero
TruncProduct(n, p) ==
    IF p >= 0 THEN TruncProductNonNeg(n, p) ELSE 0 - TruncProductNonNeg(n, 0 - p)

\* the clamp without its lower end
ClampNoFloor(c, n) == Min(c, n - 1)

\* line 29: max(1, min(cutoff_idx, len(data_sorted) - 1))
Clamp(c, n) == Max(1, Min(c, n - 1))

CutoffIdx(n, p) == Clamp(TruncProduct(n, p), n)

\* the position a slice bound c stands for in a sequence of n rows: a
\* negative bound counts from the end, and bounds are cut to the sequence
SliceBound(c, n) == IF c < 0 THEN Max(n + c, 0) ELSE Min(c, n)

\* lines 32-33: iloc[:cutoff_idx] and iloc[cutoff_idx:]
ILocUpTo(rows, c) == SubSeq(rows, 1, SliceBound(c, Len(rows)))
ILocFrom(rows, c) == SubSeq(rows, SliceBound(c, Len(rows)) + 1, Len(rows))

\* ------------------------------------------- descriptive statistics (48-62)
Years == {"HE_2019", "HE_2021"}

\* group[year]: the column, missing cells included
Column(group, year) == [i \in 1..Len(group) |-> group[i][year]]

\* the values pandas computes on (skipna): the non-missing ones
Values(col) ==
    LET present == SelectSeq(col, LAMBDA x : ~x.nan)
    IN  [i \in 1..Len(present) |-> present[i].v]

\* Series.count(): the number of non-missing cells
Count(col) == Len(Values(col))

\* len(group[year]): the number of cells, missing ones included
SeriesLen(col) == Len(col)

\* Series.sum(): the sum of the non-missing values, 0 when there is none
Sum(col) == Num(SeqSum(Values(col)), 1)

Mean(col) ==
    IF Count(col) = 0 THEN NaN ELSE Num(SeqSum(Values(col)), Count(col))

\* the k-th smallest value
Kth(vals, k) ==
    CHOOSE x \in Range(vals) :
        /\ Cardinality({i \in DOMAIN vals : vals[i] < x}) < k
        /\ Cardinality({i \in DOMAIN vals : vals[i] <= x}) >= k

Median(col) ==
    LET vals == Values(col)
        c == Len(vals)
    IN  IF c = 0 THEN NaN
        ELSE IF c % 2 = 1 THEN Num(Kth(vals, (c + 1) \div 2), 1)
        ELSE Num(Kth(vals, c \div 2) + Kth(vals, c \div 2 + 1), 2)

\* c * sum(x^2) - sum(x)^2: c times the sum of squared deviations
SumSqDev(vals) ==
    Len(vals) * SeqSum([i \in DOMAIN vals |-> vals[i] * vals[i]])
        - SeqSum(vals) * SeqSum(vals)

\* Series.var(): ddof = 1, NaN for fewer than two values
Variance(col) ==
    LET vals == Values(col)
        c == Len(vals)
    IN  IF c <= 1 THEN NaN ELSE Num(SumSqDev(vals), c * (c - 1))

\* Series.std()
StdDev(col) == IF Variance(col).nan THEN NaN ELSE Sqrt(Variance(col))

\* line 51: group[year].std() / (len(group[year]) ** 0.5); std() is a numpy
\* scalar, so a NaN numerator or a zero divisor gives NaN and nothing raises
StandardError(col) ==
    IF Variance(col).nan \/ SeriesLen(col) = 0 THEN NaN
    ELSE Sqrt(Num(Variance(col).num, Variance(col).den * SeriesLen(col)))

\* a minimum that defaults to 0 on an empty sample
MinimumOrZero(col) ==
    IF Count(col) = 0 THEN Num(0, 1)
    ELSE Num(CHOOSE x \in Range(Values(col)) :
                 \A y \in Range(Values(col)) : x <= y, 1)

Minimum(col) ==
    IF Count(col) = 0 THEN NaN
    ELSE Num(CHOOSE x \in Range(Values(col)) :
                 \A y \in Range(Values(col)) : x <= y, 1)

Maximum(col) ==
    IF Count(col) = 0 THEN NaN
    ELSE Num(CHOOSE x \in Range(Values(col)) :
                 \A y \in Range(Values(col)) : x >= y, 1)

\* line 57: max() - min()
RangeOf(col) ==
    IF Maximum(col).nan \/ Minimum(col).nan THEN NaN
    ELSE Num(Maximum(col).num - Minimum(col).num, 1)

\* Series.kurtosis(): NaN for fewer than four values, 0 for a constant
\* column, otherwise a finite value (not modelled)
Kurtosis(col) ==
    IF Count(col) < 4 THEN NaN
    ELSE IF SumSqDev(Values(col)) = 0 THEN Num(0, 1) ELSE Defined

\* Series.skew(): NaN for fewer than three values
Skewness(col) ==
    IF Count(col) < 3 THEN NaN
    ELSE IF SumSqDev(Values(col)) = 0 THEN Num(0, 1) ELSE Defined

\* lines 49-62: the twelve metrics of one column
DescriptiveStats(col) ==
    [Mean |-> Mean(col),
     StandardError |-> StandardError(col),
     Median |-> Median(col),
     StandardDeviation |-> StdDev(col),
     SampleVariance |-> Variance(col),
     Kurtosis |-> Kurtosis(col),
     Skewness |-> Skewness(col),
     Range |-> RangeOf(col),
     Minimum |-> Minimum(col),
     Maximum |-> Maximum(col),
     Sum |-> Sum(col),
     Count |-> Num(Count(col), 1)]

\* ----------------------------------------------------- the t-test (43-44)
\* two-tailed p-values a finite non-zero statistic may come with (the value
\* depends on the data through Student's t distribution, not modelled)
PLevels == {Num(99, 1000), Num(1, 10), Num(1, 2)}

\* ttest_ind(group['2021_HE'], group['2019_HE'], nan_policy='omit'): the
\* pooled-variance test of the non-missing values.  The statistic is
\* (mean(a) - mean(b)) / denom: NaN when a sample is empty or there is no
\* degree of freedom, infinite when both samples are constant and the means
\* differ, NaN (0 / 0) when they are constant and equal.  With a single
\* observation in one sample the library's releases differ (NaN variance or
\* variance 0), so NaN is an outcome there too.
TTestOutcomes(group) ==
    LET a == Values(Column(group, "HE_2021"))
        b == Values(Column(group, "HE_2019"))
        n1 == Len(a)
        n2 == Len(b)
        diff == SeqSum(a) * n2 - SeqSum(b) * n1
        constant == SumSqDev(a) = 0 /\ SumSqDev(b) = 0
        nan == [statistic |-> "nan", pvalue |-> NaN]
    IN  IF n1 = 0 \/ n2 = 0 \/ n1 + n2 = 2 THEN {nan}
        ELSE (IF n1 = 1 \/ n2 = 1 THEN {nan} ELSE {}) \cup
             (IF constant
              THEN IF diff = 0 THEN {nan}
                   ELSE {[statistic |-> IF diff > 0 THEN "+inf" ELSE "-inf",
                          pvalue |-> Num(0, 1)]}
              ELSE IF diff = 0
                   THEN {[statistic |-> "zero", pvalue |-> Num(1, 1)]}
                   ELSE {[statistic |-> IF diff > 0 THEN "pos" ELSE "neg",
                          pvalue |-> pv] : pv \in PLevels})

\* line 44: t_test_result.pvalue / 2
OneTailed(pvalue) ==
    IF pvalue.nan THEN NaN ELSE Num(pvalue.num, pvalue.den * 2)

\* statistic > 0 (False for NaN)
Positive(statistic) == statistic \in {"pos", "+inf"}

\* the flag without the test of the statistic's sign
SignificantAnySign(one_tailed_pvalue, statistic) ==
    /\ ~one_tailed_pvalue.nan
    /\ RatLT(one_tailed_pvalue, Num(5, 100))

\* line 68: one_tailed_pvalue < 0.05 and t_test_result.statistic > 0
Significant(one_tailed_pvalue, statistic) ==
    /\ ~one_tailed_pvalue.nan
    /\ RatLT(one_tailed_pvalue, Num(5, 100))
    /\ Positive(statistic)

\* lines 38-70: one iteration of the loop, for the t-test outcome t
GroupResult(group, name, t) ==
    [name |-> name,
     data |-> group,
     t_test_result |-> t,
     pvalue |-> OneTailed(t.pvalue),
     statistic |-> t.statistic,
     significant |-> Significant(OneTailed(t.pvalue), t.statistic),
     stats |-> [year \in Years |-> DescriptiveStats(Column(group, year))]]

\* lines 39-40: f"Top {p}%" and f"Bottom {100-p}%"
TopName(p) == <<"Top", p>>
BottomName(p) == <<"Bottom", 100 - p>>

\* ------------------------------------------------------------- the state
\* csv: the table in all.csv
\* data: the module-level frame read from it (line 18)
\* indexer: the order this build's argsort gives the frame's rank column
\* req: per callback, its position and the locals of analyze_split
VARIABLES csv, data, indexer, req

vars == <<csv, data, indexer, req>>

Idle ==
    [pc |-> "idle", percentile |-> 0, data_sorted |-> <<>>, cutoff_idx |-> 0,
     upper_group |-> <<>>, lower_group |-> <<>>, results |-> <<>>]

\* the group the loop of line 38 is at
CurrentGroup(q) ==
    IF Len(q.results) = 0 THEN q.upper_group ELSE q.lower_group

CurrentName(q) ==
    IF Len(q.results) = 0 THEN TopName(q.percentile)
    ELSE BottomName(q.percentile)

\* a sort in place: the module-level frame becomes the sorted one
DataAfterSortInPlace(d, sorted) == sorted

\* analyze_split reads the frame and never writes it
DataAfterSort(d, sorted) == d

\* ------------------------------------------------------------ the actions
\* lines 339-341 and 77: the slider's value p arrives, update_analysis calls
\* create_plots, which calls analyze_split(data, p)
Call(r, p) ==
    /\ req[r].pc = "idle"
    /\ req' = [req EXCEPT ![r] = [Idle EXCEPT !.pc = "sort", !.percentile = p]]
    /\ UNCHANGED <<csv, data, indexer>>

\* line 23
Sort(r) ==
    /\ req[r].pc = "sort"
    /\ LET sorted == SortValues(data, indexer)
       IN  /\ req' = [req EXCEPT ![r].pc = "split", ![r].data_sorted = sorted]
           /\ data' = DataAfterSort(data, sorted)
    /\ UNCHANGED <<csv, indexer>>

\* lines 26-33
Split(r) ==
    /\ req[r].pc = "split"
    /\ LET rows == req[r].data_sorted
           c == CutoffIdx(Len(rows), req[r].percentile)
       IN  req' = [req EXCEPT ![r].pc = "analyze",
                              ![r].cutoff_idx = c,
                              ![r].upper_group = ILocUpTo(rows, c),
                              ![r].lower_group = ILocFrom(rows, c)]
    /\ UNCHANGED <<csv, data, indexer>>

\* lines 38-70, one iteration of the loop; line 72 after the second
Analyze(r) ==
    /\ req[r].pc = "analyze"
    /\ \E t \in TTestOutcomes(CurrentGroup(req[r])) :
         LET res == Append(req[r].results,
                           GroupResult(CurrentGroup(req[r]),
                                       CurrentName(req[r]), t))
         IN  req' = [req EXCEPT ![r].results = res,
                                ![r].pc = IF Len(res) = 2 THEN "done"
                                          ELSE "analyze"]
    /\ UNCHANGED <<csv, data, indexer>>

\* line 72 and lines 343-405: the results are returned and rendered
Return(r) ==
    /\ req[r].pc = "done"
    /\ req' = [req EXCEPT ![r] = Idle]
    /\ UNCHANGED <<csv, data, indexer>>

\* ---------------------------------------------------- the specifications
\* line 18, for a table f and the callbacks rs
Load(f, rs) ==
    /\ csv = f
    /\ data = f
    /\ indexer \in ArgsortOutcomes(f)
    /\ req = [r \in rs |-> Idle]

\* small frames with ties and missing values in the rank column, two
\* overlapping callbacks
Init ==
    \E n \in 0..MaxRows :
        \E f \in Frames(n, {Val(1), Val(2), NaN}, {Val(2)}, {Val(3)}) :
            Load(f, Requests)

Next ==
    \/ \E r \in DOMAIN req : \E p \in SmallPercentiles : Call(r, p)
    \/ \E r \in DOMAIN req : Sort(r)
    \/ \E r \in DOMAIN req : Split(r)
    \/ \E r \in DOMAIN req : Analyze(r)
    \/ \E r \in DOMAIN req : Return(r)

Spec == Init /\ [][Next]_vars

\* frames ranked in file order, with every mix of values in the two
\* analysed columns, one callback
StatFrames(n) ==
    {[i \in 1..n |-> [f[i] EXCEPT !.GDP_2021 = Val(n + 1 - i)]] :
        f \in Frames(n, {NaN}, {Val(2), NaN}, {Val(1), Val(3), NaN})}

InitStats ==
    \E n \in 0..MaxStatRows : \E f \in StatFrames(n) : Load(f, {"r1"})

NextStats ==
    \/ \E r \in DOMAIN req : \E p \in StatPercentiles : Call(r, p)
    \/ \E r \in DOMAIN req : Sort(r)
    \/ \E r \in DOMAIN req : Split(r)
    \/ \E r \in DOMAIN req : Analyze(r)
    \/ \E r \in DOMAIN req : Return(r)

SpecStats == InitStats /\ [][NextStats]_vars

\* long frames without ties, ranked in file order or against it, two
\* overlapping callbacks
LargeFrames(n) ==
    {[i \in 1..n |-> [idx |-> i,
                      GDP_2021 |-> Val(IF up THEN i ELSE n + 1 - i),
                      HE_2019 |-> Val(2), HE_2021 |-> Val(3)]] :
        up \in BOOLEAN}

InitLarge ==
    \E n \in 0..MaxLargeRows : \E f \in LargeFrames(n) : Load(f, Requests)

NextLarge ==
    \/ \E r \in DOMAIN req : \E p \in LargePercentiles : Call(r, p)
    \/ \E r \in DOMAIN req : Sort(r)
    \/ \E r \in DOMAIN req : Split(r)
    \/ \E r \in DOMAIN req : Analyze(r)
    \/ \E r \in DOMAIN req : Return(r)

SpecLarge == InitLarge /\ [][NextLarge]_vars

\* lines 21-72 as one function: the results analyze_split(d, p) may return on
\* a build whose argsort orders d by ix
AnalyzeSplit(d, ix, p) ==
    LET rows == SortValues(d, ix)
        c == CutoffIdx(Len(rows), p)
        upper == ILocUpTo(rows, c)
        lower == ILocFrom(rows, c)
    IN  {<<GroupResult(upper, TopName(p), t1),
           GroupResult(lower, BottomName(p), t2)>> :
            t1 \in TTestOutcomes(upper), t2 \in TTestOutcomes(lower)}

\* ------------------------------------------------------------ the claims
\* the callbacks past line 33, which hold the two groups
SplitDone == {r \in DOMAIN req : req[r].pc \in {"analyze", "done"}}

\* the index labels of the rows of a group
Labels(group) == {group[i].idx : i \in DOMAIN group}

\* C1: for a frame of at least 2 rows and every percentile, the two groups
\* together have as many rows as the frame, each has at least one row, and
\* no row is in both
C1_Partition ==
    \A r \in SplitDone :
        Len(data) >= 2 =>
            /\ Len(req[r].upper_group) + Len(req[r].lower_group) = Len(data)
            /\ Len(req[r].upper_group) >= 1
            /\ Len(req[r].lower_group) >= 1
            /\ Labels(req[r].upper_group) \cap Labels(req[r].lower_group) = {}

C1_Witness ==
    \E r \in DOMAIN req, q \in DOMAIN req :
        /\ Len(data) = 3
        /\ req[r].pc = "done" /\ req[r].percentile = 150
        /\ Len(req[r].upper_group) = 2
        /\ req[q].pc = "done" /\ req[q].percentile = 0 - 10
        /\ Len(req[q].lower_group) = 2

\* C2: with fewer than 2 rows the split fails with an InsufficientDataError:
\* no call gets to hold groups or to return a result
C2_InsufficientData ==
    Len(data) < 2 => SplitDone = {}

\* C3: the cutoff is floor(n * p / 100) clamped to [1, n - 1], the upper
\* group is the first cutoff rows of the sorted rows, the lower group the rest
C3_FloorCutoff ==
    \A r \in SplitDone :
        LET n == Len(data)
            c == Max(1, Min((n * req[r].percentile) \div 100, n - 1))
        IN  n >= 2 =>
                /\ req[r].cutoff_idx = c
                /\ req[r].upper_group = SubSeq(req[r].data_sorted, 1, c)
                /\ req[r].lower_group = SubSeq(req[r].data_sorted, c + 1, n)

\* C4: a group is flagged significant exactly when its one-tailed p-value,
\* half of the test's two-tailed p-value, is below 0.05 and the statistic of
\* 2021_HE against 2019_HE is positive; a group whose 2021_HE values are all
\* below its 2019_HE values is never flagged
AllLower(group) ==
    LET a == Values(Column(group, "HE_2021"))
        b == Values(Column(group, "HE_2019"))
    IN  /\ a # <<>>
        /\ b # <<>>
        /\ \A i \in DOMAIN a, j \in DOMAIN b : a[i] < b[j]

C4_Significance ==
    \A r \in DOMAIN req : \A i \in DOMAIN req[r].results :
        LET res == req[r].results[i]
            two == res.t_test_result.pvalue
        IN  /\ res.pvalue.nan <=> two.nan
            /\ ~two.nan =>
                   res.pvalue.num * 2 * two.den = two.num * res.pvalue.den
            /\ res.significant <=>
                   /\ ~res.pvalue.nan
                   /\ res.pvalue.num * 100 < 5 * res.pvalue.den
                   /\ res.statistic \in {"pos", "+inf"}
            /\ AllLower(res.data) => ~res.significant

C4_Witness ==
    \E r \in DOMAIN req :
        /\ req[r].pc = "done"
        /\ req[r].results[1].significant
        /\ req[r].results[1].pvalue = Num(0, 2)
        /\ AllLower(req[r].results[2].data)
        /\ req[r].results[2].pvalue = Num(0, 2)
        /\ ~req[r].results[2].significant

\* C5: rows of equal rank keep the order they have in the frame
C5_StableSort ==
    \A r \in DOMAIN req :
        \A i \in DOMAIN req[r].data_sorted, j \in DOMAIN req[r].data_sorted :
            /\ i < j
            /\ req[r].data_sorted[i].GDP_2021 = req[r].data_sorted[j].GDP_2021
            => req[r].data_sorted[i].idx < req[r].data_sorted[j].idx

\* C6: on one frame of at least 2 rows, a percentile that is not smaller
\* gives an upper group that is not smaller
C6_Monotone ==
    \A r \in SplitDone, q \in SplitDone :
        Len(data) >= 2 /\ req[r].percentile <= req[q].percentile =>
            Len(req[r].upper_group) <= Len(req[q].upper_group)

C6_Witness ==
    \E r \in SplitDone, q \in SplitDone :
        /\ Len(data) = MaxLargeRows
        /\ req[r].percentile = 0 /\ Len(req[r].upper_group) = 1
        /\ req[q].percentile = 58
        /\ Len(req[q].upper_group) > 1

\* C7: the Standard Error is the standard deviation divided by the square
\* root of Count
C7_StandardErrorByCount ==
    \A r \in DOMAIN req : \A i \in DOMAIN req[r].results : \A year \in Years :
        LET st == req[r].results[i].stats[year]
        IN  /\ st.StandardError.nan <=> st.StandardDeviation.nan
            /\ ~st.StandardError.nan =>
                   RatEq(Num(st.StandardError.sqrt_of.num * st.Count.num,
                             st.StandardError.sqrt_of.den),
                         st.SampleVariance)

UndefinedWhenEmpty ==
    {"Mean", "Median", "StandardDeviation", "SampleVariance", "StandardError",
     "Kurtosis", "Skewness", "Range", "Minimum", "Maximum"}

\* C8 as stated: a column without a non-missing value gets a result in which
\* the eleven metrics, Sum among them, are NaN
C8_AllNaN ==
    \A r \in DOMAIN req : \A i \in DOMAIN req[r].results : \A year \in Years :
        LET st == req[r].results[i].stats[year]
        IN  st.Count = Num(0, 1) =>
                /\ \A m \in UndefinedWhenEmpty : st[m].nan
                /\ st.Sum.nan

\* C8: a column without a non-missing value does not stop the analysis: its
\* group gets a result in which the ten metrics an empty sample leaves
\* undefined are NaN, Sum is 0 and Count is 0
C8_NaNExceptSum ==
    \A r \in DOMAIN req :
        /\ req[r].pc = "analyze" => TTestOutcomes(CurrentGroup(req[r])) # {}
        /\ req[r].pc = "done" => Len(req[r].results) = 2
        /\ \A i \in DOMAIN req[r].results : \A year \in Years :
             LET st == req[r].results[i].stats[year]
             IN  Count(Column(req[r].results[i].data, year)) = 0 =>
                     /\ \A m \in UndefinedWhenEmpty : st[m].nan
                     /\ st.Sum = Num(0, 1)
                     /\ st.Count = Num(0, 1)

C8_Witness ==
    \E r \in DOMAIN req :
        /\ req[r].pc = "done"
        /\ Len(req[r].upper_group) = 2
        /\ Count(Column(req[r].upper_group, "HE_2021")) = 0
        /\ Count(Column(req[r].upper_group, "HE_2019")) = 2
        /\ req[r].results[1].stats["HE_2021"].Mean.nan

\* C9: the frame stays as it was loaded, and a call that overlaps others
\* returns a result of the same call run alone
C9_Independent ==
    /\ data = csv
    /\ \A r \in DOMAIN req :
           req[r].pc = "done" =>
               req[r].results \in AnalyzeSplit(csv, indexer, req[r].percentile)

C9_Witness ==
    \E r \in DOMAIN req, q \in DOMAIN req :
        /\ req[r].pc = "done" /\ req[q].pc = "done"
        /\ req[r].percentile = 0 /\ req[q].percentile = 100
        /\ Len(data) = 3
        /\ req[r].results # req[q].results

\* C10: two calls with the same percentile hold the same two groups, the
\* same rows in the same order
C10_Idempotent ==
    \A r \in SplitDone, q \in SplitDone :
        req[r].percentile = req[q].percentile =>
            /\ req[r].upper_group = req[q].upper_group
            /\ req[r].lower_group = req[q].lower_group

C10_Witness ==
    \E r \in DOMAIN req, q \in DOMAIN req :
        /\ r # q
        /\ req[r].pc = "done" /\ req[q].pc = "done"
        /\ req[r].percentile = 50 /\ req[q].percentile = 50
        /\ Len(req[r].upper_group) = 1 /\ Len(req[r].lower_group) = 2
        /\ req[r].upper_group[1].GDP_2021 = req[r].lower_group[1].GDP_2021

====
